---- MODULE Spec2Model ----
(***************************************************************************)
(* Model of the article CRUD service of src/main.go: the five article      *)
(* handlers, each issuing at most one parameterized statement against the  *)
(* articles table (id SERIAL PRIMARY KEY, title, content), and the         *)
(* required-field validation of the create handler.                        *)
(*                                                                         *)
(* A handler shares nothing with other requests but the table, and it      *)
(* issues a single statement, so an execution of concurrent requests is a  *)
(* serial order of their statements: one action per handled request.       *)
(***************************************************************************)
EXTENDS Integers, Sequences, FiniteSets, TLC

\* Cap on the values the SERIAL sequence of articles.id hands out.
MaxSeq == 2

VARIABLES
    articles,   \* the rows of table articles: a set of Article records
    seq,        \* last value handed out by the sequence behind id SERIAL
    request,    \* the request handled last
    response,   \* the response written for it
    stmts,      \* number of storage statements issued while handling it
    pre,        \* history: table, sequence and logs as they were before it
    assigned,   \* history: the ids returned by successful inserts, in order
    deleted,    \* history: the ids whose DELETE was answered 204
    posted      \* history: Articles returned by POST, not PUT/DELETEd since

vars == <<articles, seq, request, response, stmts, pre, assigned, deleted, posted>>

-----------------------------------------------------------------------------
(* Values *)

StatusOK == 200
StatusCreated == 201
StatusNoContent == 204
StatusBadRequest == 400
StatusNotFound == 404
StatusInternalServerError == 500

\* Article{Id, Title, Content}; the zero value of `var a Article`.
Article(id, title, content) == [Id |-> id, Title |-> title, Content |-> content]
ZeroArticle == Article(0, "", "")

\* Request bodies.  A body is either not JSON (json.Unmarshal fails) or a JSON
\* object in which each of the keys id, title, content is present or omitted.
Omitted(zero) == [present |-> FALSE, v |-> zero]
Given(x) == [present |-> TRUE, v |-> x]
JsonObject(i, t, c) == [ok |-> TRUE, id |-> i, title |-> t, content |-> c]
MalformedBody == [ok |-> FALSE, id |-> Omitted(0), title |-> Omitted(""), content |-> Omitted("")]
JsonBodies ==
    { JsonObject(Omitted(0), Omitted(""), Omitted("")),         \* {}
      JsonObject(Omitted(0), Omitted(""), Given("World")),      \* title omitted
      JsonObject(Omitted(0), Given("Hello"), Omitted("")),      \* content omitted
      JsonObject(Omitted(0), Given(""), Given("World")),        \* title empty
      JsonObject(Omitted(0), Given("Hello"), Given("")),        \* content empty
      JsonObject(Omitted(0), Given("Hello"), Given("World")),
      JsonObject(Omitted(0), Given("Hi"), Given("There")),
      JsonObject(Given(1), Given("Hello"), Given("World")),     \* carries an id
      JsonObject(Given(1), Given(""), Given("")) }
Bodies == JsonBodies \cup {MalformedBody}
NoBody == MalformedBody

\* The {id} path segment is text: either the decimal form of an integer or not.
NonNumeric == [num |-> FALSE, val |-> 0]
Numeric(i) == [num |-> TRUE, val |-> i]
PathParams == {Numeric(i) : i \in 1..MaxSeq} \cup {NonNumeric}
NoParam == NonNumeric

\* Response bodies.
EmptyBody == [kind |-> "empty"]
MessageBody(m) == [kind |-> "message", message |-> m]
ArticleBody(a) == [kind |-> "article", article |-> a]
ErrorsBody(es) == [kind |-> "errors", items |-> es]
Resp(status, ctype, body) == [status |-> status, ctype |-> ctype, body |-> body]

Ids(tbl) == {a.Id : a \in tbl}

-----------------------------------------------------------------------------
(* encoding/json *)

\* json.Unmarshal(payload, &a) on a zero Article: omitted keys keep the zero value.
JsonUnmarshal(body) ==
    IF ~body.ok
    THEN [err |-> TRUE, val |-> ZeroArticle]
    ELSE [err |-> FALSE,
          val |-> Article(IF body.id.present THEN body.id.v ELSE 0,
                          IF body.title.present THEN body.title.v ELSE "",
                          IF body.content.present THEN body.content.v ELSE "")]

\* A Go slice: nil or not, and its elements.
MakeArticlesNil == [nil |-> TRUE, elems |-> <<>>]
MakeArticles == [nil |-> FALSE, elems |-> <<>>]
AppendArticle(s, a) == [nil |-> FALSE, elems |-> Append(s.elems, a)]

\* json.NewEncoder(w).Encode(slice): a nil slice encodes as null.
EncodeArticles(s) ==
    IF s.nil THEN [kind |-> "null"] ELSE [kind |-> "array", items |-> s.elems]

-----------------------------------------------------------------------------
(* Validation *)

\* The fields of Article tagged validate:"required", in declaration order.
RequiredFields == <<"Title", "Content">>
FieldValue(a, f) == IF f = "Title" THEN a.Title ELSE a.Content

ValidateStructTitleOnly(a) == IF a.Title = "" THEN <<"Title">> ELSE <<>>
ValidateStructFailFast(a) ==
    LET all == SelectSeq(RequiredFields, LAMBDA f : FieldValue(a, f) = "")
    IN  IF all = <<>> THEN <<>> ELSE <<Head(all)>>
\* validate.Struct(a): the failing fields (zero value), in declaration order.
ValidateStruct(a) == SelectSeq(RequiredFields, LAMBDA f : FieldValue(a, f) = "")

\* The loop building validationErrorMessages from the failing fields.
ValidationErrorMessages(fields) ==
    [i \in 1..Len(fields) |->
        [Key   |-> "'" \o fields[i] \o "'",
         Error |-> "Field validation for '" \o fields[i]
                   \o "' failed on the 'required' tag"]]

-----------------------------------------------------------------------------
(* The storage collaborator: table articles and the sequence behind id SERIAL *)

Max(S) == CHOOSE x \in S : \A y \in S : y <= x

StorageInsertMaxId(tbl, s, title, content) ==
    LET row == Article(IF tbl = {} THEN 1 ELSE Max(Ids(tbl)) + 1, title, content)
    IN  [articles |-> tbl \cup {row}, seq |-> s + 1, row |-> row]
StorageInsertSwapped(tbl, s, title, content) ==
    LET row == Article(s + 1, content, title)
    IN  [articles |-> tbl \cup {row}, seq |-> s + 1, row |-> row]
\* INSERT INTO articles (title, content) VALUES ($1, $2) RETURNING id, title, content
\* with id defaulting to nextval of the sequence.
StorageInsert(tbl, s, title, content) ==
    LET row == Article(s + 1, title, content)
    IN  [articles |-> tbl \cup {row}, seq |-> s + 1, row |-> row]

\* SELECT * FROM articles WHERE id = $1
StorageSelectById(tbl, id) == {a \in tbl : a.Id = id}

StorageUpdateUpsert(tbl, id, title, content) ==
    IF id \in Ids(tbl)
    THEN [articles |-> {IF a.Id = id THEN Article(a.Id, title, content) ELSE a : a \in tbl},
          rowsAffected |-> 1]
    ELSE [articles |-> tbl \cup {Article(id, title, content)}, rowsAffected |-> 0]
\* UPDATE articles SET title = $1, content = $2 WHERE id = $3
StorageUpdate(tbl, id, title, content) ==
    [articles |-> {IF a.Id = id THEN Article(a.Id, title, content) ELSE a : a \in tbl},
     rowsAffected |-> Cardinality({a \in tbl : a.Id = id})]

\* DELETE FROM articles WHERE id = $1
StorageDelete(tbl, id) ==
    [articles |-> {a \in tbl : a.Id # id},
     rowsAffected |-> Cardinality({a \in tbl : a.Id = id})]

\* SELECT * FROM articles carries no ORDER BY: the rows come in any order.
Orders(tbl) ==
    {o \in [1..Cardinality(tbl) -> tbl] :
        \A i, j \in 1..Cardinality(tbl) : i # j => o[i] # o[j]}

\* What can go wrong at the storage while a statement runs.
ExecFaults == {"none", "exec"}
InsertFaults == {"none", "exec", "exec_after_nextval"}
QueryFaults == {"none", "query", "scan", "iter"}

-----------------------------------------------------------------------------
(* Handlers: (table, sequence, request) -> (table, sequence, response)     *)

Result(tbl, s, resp, n) == [articles |-> tbl, seq |-> s, resp |-> resp, stmts |-> n]
NotFound == Resp(StatusNotFound, "", MessageBody("Article not found"))
ServerError == Resp(StatusInternalServerError, "", EmptyBody)

\* The rows.Next() loop: scan each row and append it.
RECURSIVE ScanRows(_, _, _)
ScanRows(order, i, acc) ==
    IF i > Len(order) THEN acc
    ELSE ScanRows(order, i + 1, AppendArticle(acc, order[i]))

returnAllArticles(tbl, s, order, fault) ==
    IF fault = "query" THEN Result(tbl, s, ServerError, 1)
    ELSE IF fault = "scan" /\ Len(order) > 0 THEN Result(tbl, s, ServerError, 1)
    ELSE IF fault = "iter" THEN Result(tbl, s, ServerError, 1)
    ELSE Result(tbl, s,
                Resp(StatusOK, "application/json",
                     EncodeArticles(ScanRows(order, 1, MakeArticles))),
                1)

returnSingleArticle(tbl, s, p, fault) ==
    LET rows == StorageSelectById(tbl, p.val) IN
    IF ~p.num \/ fault # "none" THEN Result(tbl, s, ServerError, 1)
    ELSE IF rows = {} THEN Result(tbl, s, NotFound, 1)
    ELSE Result(tbl, s,
                Resp(StatusOK, "application/json", ArticleBody(CHOOSE a \in rows : TRUE)),
                1)

createNewArticle(tbl, s, body, fault) ==
    LET dec == JsonUnmarshal(body)
        newArticle == dec.val
        failing == ValidateStruct(newArticle)
        ins == StorageInsert(tbl, s, newArticle.Title, newArticle.Content)
    IN  IF dec.err THEN Result(tbl, s, ServerError, 0)
        ELSE IF failing # <<>>
        THEN Result(tbl, s,
                    Resp(StatusBadRequest, "", ErrorsBody(ValidationErrorMessages(failing))),
                    0)
        ELSE IF fault = "exec" THEN Result(tbl, s, ServerError, 1)
        ELSE IF fault = "exec_after_nextval" THEN Result(tbl, s + 1, ServerError, 1)
        ELSE Result(ins.articles, ins.seq,
                    Resp(StatusCreated, "application/json", ArticleBody(ins.row)),
                    1)

deleteArticleByIdIgnoreErr(tbl, s, p, fault) ==
    LET del == StorageDelete(tbl, p.val) IN
    IF ~p.num \/ fault # "none" THEN Result(tbl, s, NotFound, 1)
    ELSE IF del.rowsAffected = 0 THEN Result(del.articles, s, NotFound, 1)
    ELSE Result(del.articles, s, Resp(StatusNoContent, "", EmptyBody), 1)
deleteArticleByIdNoCount(tbl, s, p, fault) ==
    LET del == StorageDelete(tbl, p.val) IN
    IF ~p.num \/ fault # "none" THEN Result(tbl, s, ServerError, 1)
    ELSE Result(del.articles, s, Resp(StatusNoContent, "", EmptyBody), 1)
deleteArticleById(tbl, s, p, fault) ==
    LET del == StorageDelete(tbl, p.val) IN
    IF ~p.num \/ fault # "none" THEN Result(tbl, s, ServerError, 1)
    ELSE IF del.rowsAffected = 0 THEN Result(del.articles, s, NotFound, 1)
    ELSE Result(del.articles, s, Resp(StatusNoContent, "", EmptyBody), 1)

updateArticle(tbl, s, p, body, fault) ==
    LET dec == JsonUnmarshal(body)
        updatedArticle == dec.val
        upd == StorageUpdate(tbl, p.val, updatedArticle.Title, updatedArticle.Content)
    IN  IF dec.err THEN Result(tbl, s, ServerError, 0)
        ELSE IF ~p.num \/ fault # "none" THEN Result(tbl, s, ServerError, 1)
        ELSE IF upd.rowsAffected = 0 THEN Result(upd.articles, s, NotFound, 1)
        ELSE Result(upd.articles, s,
                    Resp(StatusOK, "application/json", ArticleBody(updatedArticle)),
                    1)

-----------------------------------------------------------------------------
(* The service: one action per handled request *)

Req(handler, p, body, fault) == [handler |-> handler, id |-> p, body |-> body, fault |-> fault]

Init ==
    /\ articles = {}
    /\ seq = 0
    /\ request = Req("none", NoParam, NoBody, "none")
    /\ response = Resp(0, "", EmptyBody)
    /\ stmts = 0
    /\ pre = [articles |-> {}, seq |-> 0, assigned |-> <<>>, deleted |-> {}]
    /\ assigned = <<>>
    /\ deleted = {}
    /\ posted = {}

\* The request req was handled with result res.
Handle(req, res) ==
    /\ res.seq <= MaxSeq
    /\ articles' = res.articles
    /\ seq' = res.seq
    /\ request' = req
    /\ response' = res.resp
    /\ stmts' = res.stmts
    /\ pre' = [articles |-> articles, seq |-> seq, assigned |-> assigned,
               deleted |-> deleted]
    /\ assigned' = IF req.handler = "createNewArticle" /\ res.resp.status = StatusCreated
                   THEN Append(assigned, res.resp.body.article.Id)
                   ELSE assigned
    /\ deleted' = IF req.handler = "deleteArticleById" /\ res.resp.status = StatusNoContent
                  THEN deleted \cup {req.id.val}
                  ELSE deleted
    /\ posted' = IF req.handler = "createNewArticle" /\ res.resp.status = StatusCreated
                 THEN posted \cup {res.resp.body.article}
                 ELSE IF req.handler \in {"updateArticle", "deleteArticleById"} /\ req.id.num
                 THEN {a \in posted : a.Id # req.id.val}
                 ELSE posted

GetArticles ==
    \E order \in Orders(articles), fault \in QueryFaults :
        \* a row can fail to scan only when there is a row
        /\ fault = "scan" => articles # {}
        /\ Handle(Req("returnAllArticles", NoParam, NoBody, fault),
               returnAllArticles(articles, seq, order, fault))

GetArticle ==
    \E p \in PathParams, fault \in ExecFaults :
        Handle(Req("returnSingleArticle", p, NoBody, fault),
               returnSingleArticle(articles, seq, p, fault))

PostArticle ==
    \E body \in Bodies, fault \in InsertFaults :
        Handle(Req("createNewArticle", NoParam, body, fault),
               createNewArticle(articles, seq, body, fault))

DeleteArticle ==
    \E p \in PathParams, fault \in ExecFaults :
        Handle(Req("deleteArticleById", p, NoBody, fault),
               deleteArticleById(articles, seq, p, fault))

PutArticle ==
    \E p \in PathParams, body \in Bodies, fault \in ExecFaults :
        Handle(Req("updateArticle", p, body, fault),
               updateArticle(articles, seq, p, body, fault))

Next == GetArticles \/ GetArticle \/ PostArticle \/ DeleteArticle \/ PutArticle

Spec == Init /\ [][Next]_vars

-----------------------------------------------------------------------------
(* Properties *)

Range(f) == {f[i] : i \in DOMAIN f}
Handled(h) == request.handler = h
Healthy == request.fault = "none"
\* A JSON key that is omitted or carries the empty string.
Missing(field) == ~field.present \/ field.v = ""
\* The request's storage statement is reached: the body decoded and validated.
StatementReached ==
    \/ request.handler \in {"returnAllArticles", "returnSingleArticle", "deleteArticleById"}
    \/ request.handler = "updateArticle" /\ request.body.ok
    \/ /\ request.handler = "createNewArticle" /\ request.body.ok
       /\ ~Missing(request.body.title) /\ ~Missing(request.body.content)
\* The storage reports an error for the statement: a fault, or an {id} that is
\* no integer.
StatementFails ==
    \/ ~Healthy
    \/ /\ request.handler \in {"returnSingleArticle", "deleteArticleById", "updateArticle"}
       /\ ~request.id.num
NotFoundBody == [kind |-> "message", message |-> "Article not found"]

\* C1: a POST with non-empty title and content whose insert succeeds is
\* answered 201 with a positive id and the posted title and content; a GET on
\* that id, with no PUT or DELETE on it in between and the storage answering,
\* is answered 200 with exactly that Article.
C1_PostThenGet ==
    /\ (/\ Handled("createNewArticle") /\ request.body.ok /\ Healthy
        /\ ~Missing(request.body.title) /\ ~Missing(request.body.content))
       => /\ response.status = 201
          /\ response.body.kind = "article"
          /\ response.body.article.Id \in Nat \ {0}
          /\ response.body.article.Title = request.body.title.v
          /\ response.body.article.Content = request.body.content.v
    /\ (Handled("returnSingleArticle") /\ request.id.num /\ Healthy)
       => \A a \in posted :
            a.Id = request.id.val
            => /\ response.status = 200
               /\ response.body = [kind |-> "article", article |-> a]

C1_Witness ==
    /\ Handled("returnSingleArticle") /\ request.id.num /\ Healthy
    /\ request.id.val = 2
    /\ \E a \in posted : a.Id = 2 /\ a.Title = "Hello" /\ a.Content = "World"
    /\ response.status = 200

\* C2: a POST whose title or content is missing or empty is answered 400
\* without any insert: table and sequence are as before the request.
C2_InvalidPostLeavesStorage ==
    (/\ Handled("createNewArticle") /\ request.body.ok
     /\ (Missing(request.body.title) \/ Missing(request.body.content)))
    => /\ response.status = 400
       /\ stmts = 0
       /\ articles = pre.articles
       /\ seq = pre.seq

C2_Witness ==
    /\ Handled("createNewArticle") /\ request.body.ok
    /\ ~Missing(request.body.title) /\ Missing(request.body.content)
    /\ request.fault = "none"
    /\ response.status = 400
    /\ articles # {}

TitleError ==
    [Key |-> "'Title'", Error |-> "Field validation for 'Title' failed on the 'required' tag"]
ContentError ==
    [Key |-> "'Content'", Error |-> "Field validation for 'Content' failed on the 'required' tag"]

\* C3: the 400 body of a POST lists exactly one entry per missing required
\* field, Title before Content, each with the 'required' tag message of its field.
C3_OneErrorPerMissingField ==
    (Handled("createNewArticle") /\ response.status = 400)
    => /\ response.body.kind = "errors"
       /\ request.body.ok
       /\ response.body.items =
            (IF Missing(request.body.title) THEN <<TitleError>> ELSE <<>>)
            \o (IF Missing(request.body.content) THEN <<ContentError>> ELSE <<>>)
       /\ response.body.items # <<>>

C3_Witness ==
    /\ Handled("createNewArticle") /\ response.status = 400
    /\ ~request.body.title.present /\ ~request.body.content.present
    /\ Len(response.body.items) = 2

\* C4 (as claimed): a POST or PUT whose body does not parse is answered 400 and
\* issues no statement.
C4_MalformedBodyIs400 ==
    (request.handler \in {"createNewArticle", "updateArticle"} /\ ~request.body.ok)
    => /\ response.status = 400
       /\ stmts = 0
       /\ articles = pre.articles

\* C5: with the storage answering, a GET or DELETE on an id deleted before is
\* answered 404 {"message":"Article not found"}, whatever was handled in
\* between; so is a DELETE on an id no insert has assigned so far.
C5_DeletedStaysNotFound ==
    (/\ request.handler \in {"returnSingleArticle", "deleteArticleById"}
     /\ request.id.num /\ Healthy
     /\ \/ request.id.val \in pre.deleted
        \/ Handled("deleteArticleById") /\ request.id.val \notin Range(pre.assigned))
    => /\ response.status = 404
       /\ response.body = NotFoundBody

C5_Witness ==
    /\ Handled("deleteArticleById") /\ request.id.num /\ Healthy
    /\ request.id.val \in pre.deleted
    /\ \E a \in articles : a.Id > request.id.val
    /\ response.status = 404

\* C6: a PUT with a parseable body on an id that matches no row leaves the
\* table as it was, and is answered 404 when the storage answers.
C6_PutOnAbsentIdCreatesNoRow ==
    (/\ Handled("updateArticle") /\ request.body.ok /\ request.id.num
     /\ request.id.val \notin Ids(pre.articles))
    => /\ articles = pre.articles
       /\ Cardinality(articles) = Cardinality(pre.articles)
       /\ Healthy => (response.status = 404 /\ response.body = NotFoundBody)

C6_Witness ==
    /\ Handled("updateArticle") /\ request.body.ok /\ request.id.num /\ Healthy
    /\ request.id.val \notin Ids(pre.articles)
    /\ pre.articles # {}
    /\ response.status = 404

\* C7 (as claimed): a PUT answered 200 carries the path id and the title and
\* content stored for that id after the update.
C7_PutAnswersUpdatedArticle ==
    (Handled("updateArticle") /\ response.status = 200)
    => /\ response.body.kind = "article"
       /\ response.body.article.Id = request.id.val
       /\ response.body.article \in articles

\* C8: stored ids are unique; an id comes from the sequence alone, is new when
\* assigned and never assigned twice, also after its row is deleted and also
\* when the POST body carries an id; a PUT changes no stored id.
C8_IdsUniqueAssignedOnce ==
    /\ \A a, b \in articles : a.Id = b.Id => a = b
    /\ \A i, j \in DOMAIN assigned : i # j => assigned[i] # assigned[j]
    /\ Ids(articles) \subseteq Range(assigned)
    /\ (Handled("createNewArticle") /\ response.status = 201)
       => /\ response.body.article.Id \notin Range(pre.assigned)
          /\ response.body.article.Id \notin pre.deleted
          /\ response.body.article.Id > pre.seq
          /\ Ids(articles) = Ids(pre.articles) \cup {response.body.article.Id}
    /\ Handled("updateArticle") => Ids(articles) = Ids(pre.articles)

C8_Witness ==
    /\ Handled("createNewArticle") /\ response.status = 201
    /\ request.body.id.present
    /\ request.body.id.v \in pre.deleted
    /\ response.body.article.Id # request.body.id.v

\* C9: GET /articles on an empty table is answered 200 with the empty JSON
\* array, whether the table never held a row or was emptied by DELETEs.
C9_EmptyListIsEmptyArray ==
    (Handled("returnAllArticles") /\ Healthy /\ pre.articles = {})
    => /\ response.status = 200
       /\ response.body = [kind |-> "array", items |-> <<>>]

C9_Witness ==
    /\ Handled("returnAllArticles") /\ Healthy
    /\ articles = {} /\ deleted # {}
    /\ response.status = 200

\* C10: when the statement of a request fails at the storage, the answer is
\* 500 with an empty body, one statement was issued and the table is as
\* before; no request issues more than one statement.
C10_StorageErrorIs500 ==
    /\ stmts <= 1
    /\ (~Handled("none") /\ StatementReached /\ StatementFails)
       => /\ response.status = 500
          /\ response.body = [kind |-> "empty"]
          /\ stmts = 1
          /\ articles = pre.articles

C10_Witness ==
    /\ Handled("deleteArticleById") /\ request.fault = "exec"
    /\ request.id.num /\ request.id.val \in Ids(articles)
    /\ response.status = 500

====
